---- MODULE Spec2Model ----
(***************************************************************************)
(* Event-Go-BJ backend: ticket inventory, purchase lifecycle, QR           *)
(* credentials, entry validation and payment webhooks, modelled from       *)
(* Backend/apps/tickets, Backend/apps/payments and Backend/apps/events.    *)
(*                                                                         *)
(* The database is the state.  Every request handler of the views is one   *)
(* action in the sequential specification Spec; SpecConc splits the        *)
(* purchase handler at its database reads and writes.                      *)
(***************************************************************************)
EXTENDS Integers, Sequences, FiniteSets, TLC

VARIABLES
    now,          \* timezone.now(), in hours
    tickets,      \* table tickets: id -> row
    purchases,    \* table purchases: sequence of rows, the index is the pk
    validations,  \* table ticket_validations: sequence of rows
    payments,     \* table payments: sequence of rows
    response,     \* the last response returned by a handler
    procs,        \* the in-flight requests of the concurrent specifications
    refund_requests, \* table refund_requests: sequence of rows
    refunds,      \* table refunds: sequence of rows
    attendees,    \* table attendees: sequence of rows
    events        \* table events: sequence of rows

vars == <<now, tickets, purchases, validations, payments, response, procs,
         refund_requests, refunds, attendees, events>>

----------------------------------------------------------------------------
(* Bounds of the model *)

MaxTime == 27          \* the clock stops here
MaxPurchases == 2      \* rows in purchases
MaxValidations == 2    \* rows in ticket_validations
MaxPayments == 1       \* rows in payments
MaxQty == 2            \* largest quantity requested in Spec
MaxAvailable == 2      \* largest quantity_available an update sets
NumProcs == 4          \* concurrent requests in SpecConc, SpecScan, SpecRefundConc
MaxRefundRequests == 2 \* rows in refund_requests

(* Program constants *)

HoursPerDay == 24      \* datetime.date() truncates to the day
RecentHours == 1       \* timezone.timedelta(hours=1)

(* Scenario data: one event, its ticket types *)

InitialTimes == {23}
Event == [start_datetime |-> 25, end_datetime |-> 26]
Tickets == {1, 2}
Price == 25

None == 0              \* a pk that is not assigned yet
NoTime == -1           \* a null DateTimeField
NoAmount == -1         \* a null DecimalField

----------------------------------------------------------------------------
(* Text: str(), int(), json.dumps, json.loads.  A string is a sequence of  *)
(* character codes.                                                        *)

NoneText == <<78, 111, 110, 101>>          \* "None"

RECURSIVE Digits(_)
Digits(n) == IF n < 10 THEN <<48 + n>> ELSE Digits(n \div 10) \o <<48 + (n % 10)>>

Str(id) == IF id = None THEN NoneText ELSE Digits(id)

IsInt(s) == Len(s) > 0 /\ \A i \in 1..Len(s) : s[i] \in 48..57

RECURSIVE ParseInt(_)
ParseInt(s) ==
    IF Len(s) = 0 THEN 0
    ELSE 10 * ParseInt(SubSeq(s, 1, Len(s) - 1)) + (s[Len(s)] - 48)

NoRef == <<"", 0>>
BlankData == [purchase_id |-> <<>>, reference |-> NoRef, quantity |-> 0]
BlankText == [kind |-> "blank", data |-> BlankData]
Garbage == [kind |-> "garbage", data |-> BlankData]

Dumps(d) == [kind |-> "json", data |-> d]
IsJson(s) == s.kind = "json"
Loads(s) == s.data

----------------------------------------------------------------------------
(* Ticket *)

Max(a, b) == IF a >= b THEN a ELSE b

quantity_remaining(t) == Max(0, t.quantity_available - t.quantity_sold)

is_sold_out(t) == quantity_remaining(t) = 0

is_available_for_sale(t, n) ==
    IF ~t.is_active \/ is_sold_out(t) THEN FALSE
    ELSE IF t.sale_start_datetime # NoTime /\ n < t.sale_start_datetime THEN FALSE
    ELSE IF t.sale_end_datetime # NoTime /\ n > t.sale_end_datetime THEN FALSE
    ELSE TRUE

can_purchase(t, quantity, n) ==
    /\ is_available_for_sale(t, n)
    /\ quantity <= quantity_remaining(t)
    /\ quantity > 0

is_past(e, n) == e.end_datetime < n

Date(n) == n \div HoursPerDay

----------------------------------------------------------------------------
(* Purchase *)

PurchaseStatuses == {"pending", "paid", "cancelled", "refunded"}

RECURSIVE SumPaidUpTo(_, _, _)
SumPaidUpTo(P, tk, i) ==
    IF i = 0 THEN 0
    ELSE SumPaidUpTo(P, tk, i - 1)
         + (IF P[i].ticket = tk /\ P[i].status = "paid" THEN P[i].quantity ELSE 0)

\* Purchase.objects.filter(ticket=..., status='paid').aggregate(Sum('quantity')) or 0
SumPaid(P, tk) == SumPaidUpTo(P, tk, Len(P))

\* Mutant: the status filter of the aggregate is lost.
update_ticket_quantity_counts_all(P, T, tk) ==
    [T EXCEPT ![tk].quantity_sold =
        SumPaid([i \in DOMAIN P |-> [P[i] EXCEPT !.status = "paid"]], tk)]

update_ticket_quantity(P, T, tk) ==
    [T EXCEPT ![tk].quantity_sold = SumPaid(P, tk)]

generate_purchase_reference(P) == <<"EVT", Len(P) + 1>>

\* Mutant: no credential is generated.
generate_qr_code_skipped(rec, id) == rec

generate_qr_code(rec, id) ==
    [rec EXCEPT
        !.qr_code_data = Dumps([purchase_id |-> Str(id),
                                reference |-> rec.purchase_reference,
                                quantity |-> rec.quantity]),
        !.qr_code = TRUE]

\* The fields of a Purchase(...) as the callers construct it, before save().
NewPurchase(tk, q, price, st, total) ==
    [ticket |-> tk, quantity |-> q, unit_price |-> price, total_amount |-> total,
     status |-> st, qr_code |-> FALSE, qr_code_data |-> BlankText,
     purchase_reference |-> NoRef, payment_reference |-> NoRef, paid_at |-> NoTime]

\* Mutant: save() stores the total_amount it was given.
PurchaseSave_keeps_total(P, T, id, rec, n) ==
    LET r1 == IF rec.purchase_reference = NoRef
              THEN [rec EXCEPT !.purchase_reference = generate_purchase_reference(P)]
              ELSE rec
        r3 == IF r1.status = "paid" /\ ~r1.qr_code THEN generate_qr_code(r1, id) ELSE r1
        r4 == IF r3.status = "paid" /\ r3.paid_at = NoTime
              THEN [r3 EXCEPT !.paid_at = n] ELSE r3
        P2 == IF id = None THEN Append(P, r4) ELSE [P EXCEPT ![id] = r4]
        pk == IF id = None THEN Len(P) + 1 ELSE id
    IN  [purchases |-> P2,
         tickets |-> update_ticket_quantity(P2, T, r4.ticket),
         pk |-> pk]

\* Mutant: every save of a paid purchase generates the credential again.
PurchaseSave_regenerates(P, T, id, rec, n) ==
    LET r1 == IF rec.purchase_reference = NoRef
              THEN [rec EXCEPT !.purchase_reference = generate_purchase_reference(P)]
              ELSE rec
        r2 == [r1 EXCEPT !.total_amount = r1.unit_price * r1.quantity]
        r3 == IF r2.status = "paid" THEN generate_qr_code(r2, id) ELSE r2
        r4 == IF r3.status = "paid" /\ r3.paid_at = NoTime
              THEN [r3 EXCEPT !.paid_at = n] ELSE r3
        P2 == IF id = None THEN Append(P, r4) ELSE [P EXCEPT ![id] = r4]
        pk == IF id = None THEN Len(P) + 1 ELSE id
    IN  [purchases |-> P2,
         tickets |-> update_ticket_quantity(P2, T, r4.ticket),
         pk |-> pk]

\* Purchase.save(): id = None inserts, otherwise updates row id.  The result
\* carries the tables after the save and the pk of the row.
PurchaseSave(P, T, id, rec, n) ==
    LET r1 == IF rec.purchase_reference = NoRef
              THEN [rec EXCEPT !.purchase_reference = generate_purchase_reference(P)]
              ELSE rec
        r2 == [r1 EXCEPT !.total_amount = r1.unit_price * r1.quantity]
        r3 == IF r2.status = "paid" /\ ~r2.qr_code THEN generate_qr_code(r2, id) ELSE r2
        r4 == IF r3.status = "paid" /\ r3.paid_at = NoTime
              THEN [r3 EXCEPT !.paid_at = n] ELSE r3
        P2 == IF id = None THEN Append(P, r4) ELSE [P EXCEPT ![id] = r4]
        pk == IF id = None THEN Len(P) + 1 ELSE id
    IN  [purchases |-> P2,
         tickets |-> update_ticket_quantity(P2, T, r4.ticket),
         pk |-> pk]

\* Mutant: an event that starts exactly now still allows the cancel.
can_be_cancelled_at_start(p, n) ==
    p.status \in {"pending", "paid"} /\ ~(Event.start_datetime < n)

can_be_cancelled(p, n) ==
    IF p.status \notin {"pending", "paid"} THEN FALSE
    ELSE IF Event.start_datetime <= n THEN FALSE
    ELSE TRUE

----------------------------------------------------------------------------
(* Responses *)

\* op: the handler; code: the HTTP status (0 for a direct model call); outcome:
\* which return statement answered; arg: the pk of the row the response carries;
\* gateway: what the payment gateway reported to this request, if it was asked.
RespG(op, code, outcome, arg, gateway) ==
    [op |-> op, code |-> code, outcome |-> outcome, arg |-> arg, gateway |-> gateway]

Resp(op, code, outcome, arg) == RespG(op, code, outcome, arg, "")

----------------------------------------------------------------------------
(* Initial state: the event and its ticket types exist, nothing is sold. *)

TicketRow(qa, start, end) ==
    [quantity_available |-> qa, quantity_sold |-> 0, is_active |-> TRUE, price |-> Price,
     sale_start_datetime |-> start, sale_end_datetime |-> end]

InitTickets == (1 :> TicketRow(2, 24, 25)) @@ (2 :> TicketRow(3, NoTime, NoTime))

\* The events table holds the one event Event; its is_active flag is the only
\* field a handler of the model writes.
InitEvents == <<[is_active |-> TRUE]>>

\* A purchase request of SpecConc: pc is its position in TicketViewSet.purchase,
\* status the status of its purchase object, sold the quantity_sold its last
\* save computed, code the HTTP status it answered with.
IdleProc == [pc |-> "idle", quantity |-> 0, status |-> "none", sold |-> 0, code |-> 0,
             arg |-> 0]

IdleProcs == [p \in 1..NumProcs |-> IdleProc]

Init ==
    /\ now \in InitialTimes
    /\ tickets = InitTickets
    /\ purchases = <<>>
    /\ validations = <<>>
    /\ payments = <<>>
    /\ response = Resp("none", 0, "none", 0)
    /\ procs = IdleProcs
    /\ refund_requests = <<>>
    /\ refunds = <<>>
    /\ attendees = <<>>
    /\ events = InitEvents

----------------------------------------------------------------------------
(* The clock *)

Tick ==
    /\ now < MaxTime
    /\ now' = now + 1
    /\ UNCHANGED <<tickets, purchases, validations, payments, response, procs, refund_requests,
                   refunds, attendees, events>>

(* Purchase.objects.create(ticket=, quantity=, unit_price=, status=), the   *)
(* direct creation the model tests use.                                     *)
PurchaseCreate(tk, q, st) ==
    /\ Len(purchases) < MaxPurchases
    /\ LET s == PurchaseSave(purchases, tickets, None,
                             NewPurchase(tk, q, Price, st, 0), now)
       IN  /\ purchases' = s.purchases
           /\ tickets' = s.tickets
           /\ response' = Resp("create", 0, st, s.pk)
    /\ UNCHANGED <<now, validations, payments, procs, refund_requests,
                   refunds, attendees, events>>

----------------------------------------------------------------------------
(* PaymentService.process_payment: the mock gateway.  ok is the outcome of   *)
(* its random draw.                                                          *)
\* Mutant: the gateway result carries the key the purchase handler reads.
process_payment_with_reference(ok) ==
    IF ok
    THEN [success |-> TRUE, reference |-> <<"MM", 1>>, status |-> "completed",
          message |-> "processed"]
    ELSE [success |-> FALSE, status |-> "failed", error |-> "failed"]

process_payment(ok) ==
    IF ok
    THEN [success |-> TRUE, payment_reference |-> <<"MM", 1>>, status |-> "completed",
          message |-> "processed"]
    ELSE [success |-> FALSE, status |-> "failed", error |-> "failed"]

\* Nothing of the request stays in the database.
Unchanged(P, T, resp) ==
    [purchases |-> P, tickets |-> T, response |-> resp, attendees |-> <<>>]

\* Mutant: the exception does not roll the created purchase back.
purchase_without_rollback(P, T, tk, q, ok, n) ==
    IF ~can_purchase(T[tk], q, n)
    THEN Unchanged(P, T, Resp("purchase", 400, "not_available", 0))
    ELSE IF is_past(Event, n)
    THEN Unchanged(P, T, Resp("purchase", 400, "past_event", 0))
    ELSE
      LET created == PurchaseSave(P, T, None,
                         NewPurchase(tk, q, T[tk].price, "pending", T[tk].price * q), n)
          row == created.purchases[created.pk]
          payment_result == process_payment(ok)
      IN  IF payment_result.success
          THEN [purchases |-> created.purchases, tickets |-> created.tickets,
                response |-> RespG("purchase", 500, "purchase_failed", 0, "success"),
                attendees |-> <<>>]
          ELSE LET s == PurchaseSave(created.purchases, created.tickets, created.pk,
                            [row EXCEPT !.status = "cancelled"], n)
               IN  [purchases |-> s.purchases, tickets |-> s.tickets,
                    response |-> RespG("purchase", 400, "payment_failed", s.pk, "failure"),
                    attendees |-> <<>>]

(* TicketViewSet.purchase, the whole handler: the two availability checks,   *)
(* then the transaction.  An exception inside transaction.atomic() rolls     *)
(* every write of the request back and answers 500.                          *)
purchase(P, T, tk, q, ok, n) ==
    IF ~can_purchase(T[tk], q, n)
    THEN Unchanged(P, T, Resp("purchase", 400, "not_available", 0))
    ELSE IF is_past(Event, n)
    THEN Unchanged(P, T, Resp("purchase", 400, "past_event", 0))
    ELSE
      LET created == PurchaseSave(P, T, None,
                         NewPurchase(tk, q, T[tk].price, "pending", T[tk].price * q), n)
          row == created.purchases[created.pk]
          payment_result == process_payment(ok)
      IN  IF payment_result.success
          THEN IF "reference" \in DOMAIN payment_result
               THEN LET s == PurchaseSave(created.purchases, created.tickets, created.pk,
                                 [row EXCEPT !.status = "paid",
                                             !.payment_reference = payment_result.reference], n)
                    IN  \* Attendee.objects.create(purchase=purchase, ...) for the buyer
                        [purchases |-> s.purchases, tickets |-> s.tickets,
                         response |-> RespG("purchase", 201, "paid", s.pk, "success"),
                         attendees |-> <<[purchase |-> s.pk]>>]
               ELSE \* KeyError: payment_result has no key 'reference'
                    Unchanged(P, T, RespG("purchase", 500, "purchase_failed", 0, "success"))
          ELSE LET s == PurchaseSave(created.purchases, created.tickets, created.pk,
                            [row EXCEPT !.status = "cancelled"], n)
               IN  [purchases |-> s.purchases, tickets |-> s.tickets,
                    response |-> RespG("purchase", 400, "payment_failed", s.pk, "failure"),
                    attendees |-> <<>>]

\* self.get_object() looks the ticket up among the active ones: 404 otherwise.
PurchaseView(tk, q, ok) ==
    /\ Len(purchases) < MaxPurchases
    /\ LET r == IF ~tickets[tk].is_active
                THEN Unchanged(purchases, tickets, Resp("purchase", 404, "not_found", 0))
                ELSE purchase(purchases, tickets, tk, q, ok, now)
       IN  /\ purchases' = r.purchases
           /\ tickets' = r.tickets
           /\ response' = r.response
           /\ attendees' = attendees \o r.attendees
    /\ UNCHANGED <<now, validations, payments, procs, refund_requests,
                   refunds, events>>

(* PurchaseViewSet.cancel -> Purchase.cancel *)
CancelView(id) ==
    /\ id \in DOMAIN purchases
    /\ IF ~can_be_cancelled(purchases[id], now)
       THEN /\ response' = Resp("cancel", 400, "not_cancellable", id)
            /\ UNCHANGED <<purchases, tickets>>
       ELSE LET s == PurchaseSave(purchases, tickets, id,
                         [purchases[id] EXCEPT !.status = "cancelled"], now)
            IN  /\ purchases' = s.purchases
                /\ tickets' = s.tickets
                /\ response' = Resp("cancel", 200, "cancelled", id)
    /\ UNCHANGED <<now, validations, payments, procs, refund_requests,
                   refunds, attendees, events>>

(* TicketViewSet.update with TicketCreateUpdateSerializer *)
\* Mutant: the comparison with quantity_sold is lost.
validate_quantity_available_unchecked(t, value) ==
    IF value < 1 THEN "at_least_1" ELSE "ok"

validate_quantity_available(t, value) ==
    IF value < 1 THEN "at_least_1"
    ELSE IF value < t.quantity_sold THEN "below_sold"
    ELSE "ok"

TicketUpdate(tk, value) ==
    /\ tickets[tk].is_active
    /\ LET v == validate_quantity_available(tickets[tk], value)
       IN  IF v = "ok"
           THEN /\ tickets' = [tickets EXCEPT ![tk].quantity_available = value]
                /\ response' = Resp("ticket_update", 200, "updated", tk)
           ELSE /\ response' = Resp("ticket_update", 400, v, tk)
                /\ UNCHANGED tickets
    /\ UNCHANGED <<now, purchases, validations, payments, procs, refund_requests,
                   refunds, attendees, events>>

----------------------------------------------------------------------------
(* TicketValidationViewSet.validate_qr *)

\* Mutant: a validation exactly RecentHours old is missed.
RecentValidations_strict(V, pid, n) ==
    {i \in DOMAIN V : V[i].purchase = pid /\ V[i].validation_datetime > n - RecentHours}

RecentValidations(V, pid, n) ==
    {i \in DOMAIN V : V[i].purchase = pid /\ V[i].validation_datetime >= n - RecentHours}

Min(S) == CHOOSE x \in S : \A y \in S : x <= y

\* Mutant: the live status is not looked at.
not_paid_ignored(p) == FALSE

not_paid(p) == p.status # "paid"

\* The outcome of the checks of validate_qr for a payload, before any write.
validate_qr(payload, P, V, n) ==
    IF ~IsJson(payload)
    THEN Resp("validate_qr", 400, "invalid_format", 0)          \* json.JSONDecodeError
    ELSE
      LET purchase_id == Loads(payload).purchase_id
      IN  IF purchase_id = <<>>
          THEN Resp("validate_qr", 400, "invalid_format", 0)
          ELSE IF ~IsInt(purchase_id)
          THEN Resp("validate_qr", 500, "validation_failed", 0)  \* ValueError
          ELSE IF ParseInt(purchase_id) \notin DOMAIN P
          THEN Resp("validate_qr", 500, "validation_failed", 0)  \* Http404
          ELSE
            LET pid == ParseInt(purchase_id)
            IN  IF not_paid(P[pid])
                THEN Resp("validate_qr", 400, "not_valid", pid)
                ELSE IF Event.end_datetime < n
                THEN Resp("validate_qr", 400, "ended", pid)
                ELSE IF Date(Event.start_datetime) > Date(n)
                THEN Resp("validate_qr", 400, "not_started", pid)
                ELSE IF RecentValidations(V, pid, n) # {}
                THEN Resp("validate_qr", 200, "warning", Min(RecentValidations(V, pid, n)))
                ELSE Resp("validate_qr", 200, "success", Len(V) + 1)

\* TicketValidation.objects.create(purchase=, validated_by=, location=, notes=):
\* validation_datetime is auto_now_add; the scanner's requests leave location blank.
NewValidation(pid, n) == [purchase |-> pid, validation_datetime |-> n, location |-> ""]

ValidateQr(payload) ==
    LET r == validate_qr(payload, purchases, validations, now)
    IN  /\ r.outcome = "success" => Len(validations) < MaxValidations
        /\ response' = r
        /\ validations' = IF r.outcome = "success"
                          THEN Append(validations,
                                   NewValidation(ParseInt(Loads(payload).purchase_id), now))
                          ELSE validations
        /\ UNCHANGED <<now, tickets, purchases, payments, procs, refund_requests,
                   refunds, attendees, events>>

(* TicketValidationViewSet is a ModelViewSet registered on the router: besides *)
(* validate_qr it serves PUT/PATCH and DELETE on validations/<id>/.  Primary  *)
(* keys are not reused: the slot of a deleted row holds DeletedValidation.    *)
DeletedValidation == [purchase |-> None, validation_datetime |-> NoTime, location |-> ""]

Locations == {"gate", "north"}

\* UpdateModelMixin.update with TicketValidationSerializer: location is writable.
ValidationUpdate(id, location) ==
    /\ IF id \in DOMAIN validations /\ validations[id] # DeletedValidation
       THEN /\ validations' = [validations EXCEPT ![id].location = location]
            /\ response' = Resp("validation_update", 200, "updated", id)
       ELSE /\ response' = Resp("validation_update", 404, "not_found", id)
            /\ UNCHANGED validations
    /\ UNCHANGED <<now, tickets, purchases, payments, procs, refund_requests,
                   refunds, attendees, events>>

\* DestroyModelMixin.destroy
ValidationDestroy(id) ==
    /\ IF id \in DOMAIN validations /\ validations[id] # DeletedValidation
       THEN /\ validations' = [validations EXCEPT ![id] = DeletedValidation]
            /\ response' = Resp("validation_destroy", 204, "deleted", id)
       ELSE /\ response' = Resp("validation_destroy", 404, "not_found", id)
            /\ UNCHANGED validations
    /\ UNCHANGED <<now, tickets, purchases, payments, procs, refund_requests,
                   refunds, attendees, events>>

\* What a scanner can send: the credential stored on a purchase, a payload
\* naming any purchase id, a payload without purchase_id, and text that is no JSON.
Payloads ==
    {purchases[i].qr_code_data : i \in DOMAIN purchases}
    \cup {Dumps([purchase_id |-> Str(i), reference |-> NoRef, quantity |-> 1]) :
              i \in 1..(MaxPurchases + 1)}
    \cup {Dumps(BlankData), Garbage}

----------------------------------------------------------------------------
(* Payment *)

\* Payment.objects.create(purchase=, status=, amount=): no handler creates a
\* Payment row, they are entered directly.  The row has a field method and no
\* field payment_method.
NewPayment(pid, st, amount) ==
    [status |-> st, purchase |-> pid, amount |-> amount, method |-> "mobile_money"]

PaymentCreate(pid, st) ==
    /\ Len(payments) < MaxPayments
    /\ pid \in DOMAIN purchases \cup {None}
    /\ payments' = Append(payments,
           NewPayment(pid, st, IF pid = None THEN Price ELSE purchases[pid].total_amount))
    /\ response' = Resp("payment_create", 0, st, Len(payments) + 1)
    /\ UNCHANGED <<now, tickets, purchases, validations, procs, refund_requests,
                   refunds, attendees, events>>

\* Mutant: a provider's 'success' is stored as the payment status 'success'.
status_mapping_success(transaction_status) ==
    CASE transaction_status = "success" -> "success"
      [] transaction_status = "completed" -> "completed"
      [] transaction_status = "failed" -> "failed"
      [] transaction_status = "cancelled" -> "cancelled"
      [] OTHER -> "pending"

\* status_mapping.get(transaction_status, 'pending')
status_mapping(transaction_status) ==
    CASE transaction_status = "success" -> "completed"
      [] transaction_status = "completed" -> "completed"
      [] transaction_status = "failed" -> "failed"
      [] transaction_status = "cancelled" -> "cancelled"
      [] OTHER -> "pending"

\* The status handle_webhook writes on the payment's purchase.
webhook_purchase_status(old, new_status) ==
    IF new_status = "completed" THEN "confirmed"
    ELSE IF new_status \in {"failed", "cancelled"} THEN "cancelled"
    ELSE old

(* PaymentWebhookView.mobile_money / card -> PaymentService.handle_webhook.  *)
(* The payment_reference of payment i is modelled by i.                      *)
Webhook(ref, transaction_status) ==
    /\ UNCHANGED <<now, validations, procs, refund_requests,
                   refunds, attendees, events>>
    /\ IF ref \notin DOMAIN payments
       THEN /\ response' = Resp("webhook", 400, "payment_not_found", 0)
            /\ UNCHANGED <<payments, purchases, tickets>>
       ELSE LET new_status == status_mapping(transaction_status)
                pid == payments[ref].purchase
            IN  /\ payments' = [payments EXCEPT ![ref].status = new_status]
                /\ response' = Resp("webhook", 200, new_status, ref)
                /\ IF pid # None
                   THEN LET s == PurchaseSave(purchases, tickets, pid,
                                     [purchases[pid] EXCEPT !.status =
                                         webhook_purchase_status(purchases[pid].status,
                                                                 new_status)], now)
                        IN  /\ purchases' = s.purchases
                            /\ tickets' = s.tickets
                   ELSE UNCHANGED <<purchases, tickets>>

(* PaymentViewSet.retry -> PaymentService.retry_payment.  retry_payment      *)
(* reads payment.payment_method, which a Payment does not have: the          *)
(* AttributeError is caught and the retry reports failure.                   *)
retry_payment(pay, P, T, ref, ok, n) ==
    IF "payment_method" \notin DOMAIN pay[ref]
    THEN [payments |-> pay, purchases |-> P, tickets |-> T, success |-> FALSE]
    ELSE
      LET result == process_payment(ok)
      IN  IF ~result.success
          THEN [payments |-> pay, purchases |-> P, tickets |-> T, success |-> FALSE]
          ELSE LET pid == pay[ref].purchase
                   s == IF pid # None
                        THEN PurchaseSave(P, T, pid, [P[pid] EXCEPT !.status = "confirmed"], n)
                        ELSE [purchases |-> P, tickets |-> T, pk |-> None]
               IN  [payments |-> [pay EXCEPT ![ref].status = "completed"],
                    purchases |-> s.purchases, tickets |-> s.tickets, success |-> TRUE]

\* Mutant: the payment's status is not looked at.
Retry_any_status(ref, ok) ==
    /\ ref \in DOMAIN payments
    /\ UNCHANGED <<now, validations, procs, refund_requests, refunds, attendees, events>>
    /\ IF payments[ref].purchase # None
          /\ purchases[payments[ref].purchase].status = "cancelled"
       THEN /\ response' = Resp("retry", 400, "purchase_cancelled", ref)
            /\ UNCHANGED <<payments, purchases, tickets>>
       ELSE LET r == retry_payment(payments, purchases, tickets, ref, ok, now)
            IN  /\ payments' = r.payments
                /\ purchases' = r.purchases
                /\ tickets' = r.tickets
                /\ response' = IF r.success
                               THEN Resp("retry", 200, "retried", ref)
                               ELSE Resp("retry", 400, "retry_failed", ref)

Retry(ref, ok) ==
    /\ ref \in DOMAIN payments
    /\ UNCHANGED <<now, validations, procs, refund_requests,
                   refunds, attendees, events>>
    /\ IF payments[ref].status \notin {"failed", "cancelled"}
       THEN /\ response' = Resp("retry", 400, "not_retryable", ref)
            /\ UNCHANGED <<payments, purchases, tickets>>
       ELSE IF payments[ref].purchase # None
               /\ purchases[payments[ref].purchase].status = "cancelled"
       THEN /\ response' = Resp("retry", 400, "purchase_cancelled", ref)
            /\ UNCHANGED <<payments, purchases, tickets>>
       ELSE LET r == retry_payment(payments, purchases, tickets, ref, ok, now)
            IN  /\ payments' = r.payments
                /\ purchases' = r.purchases
                /\ tickets' = r.tickets
                /\ response' = IF r.success
                               THEN Resp("retry", 200, "retried", ref)
                               ELSE Resp("retry", 400, "retry_failed", ref)

----------------------------------------------------------------------------
(* Spec: the purchase lifecycle, one handler at a time. *)

WebhookStatuses == {"success", "failed", "cancelled"}

Next ==
    \/ Tick
    \/ \E tk \in Tickets, q \in 1..MaxQty, st \in {"pending", "paid"} :
          PurchaseCreate(tk, q, st)
    \/ \E tk \in Tickets, q \in 1..MaxQty, ok \in BOOLEAN : PurchaseView(tk, q, ok)
    \/ \E id \in 1..MaxPurchases : CancelView(id)
    \/ \E pid \in 0..MaxPurchases, st \in {"pending", "failed"} : PaymentCreate(pid, st)
    \/ \E ref \in 1..(MaxPayments + 1), st \in WebhookStatuses : Webhook(ref, st)
    \/ \E ref \in 1..MaxPayments, ok \in BOOLEAN : Retry(ref, ok)

Spec == Init /\ [][Next]_vars

(* SpecQr: entry validation at the gate. *)

NextQr ==
    \/ Tick
    \/ \E st \in {"pending", "paid"} : PurchaseCreate(1, 1, st)
    \/ \E id \in 1..MaxPurchases : CancelView(id)
    \/ \E payload \in Payloads : ValidateQr(payload)

SpecQr == Init /\ [][NextQr]_vars

(* SpecAudit: the validations resource as the router exposes it. *)

NextAudit ==
    \/ Tick
    \/ PurchaseCreate(1, 1, "paid")
    \/ \E payload \in Payloads : ValidateQr(payload)
    \/ \E id \in 1..MaxValidations, location \in Locations : ValidationUpdate(id, location)
    \/ \E id \in 1..MaxValidations : ValidationDestroy(id)

SpecAudit == Init /\ [][NextAudit]_vars

(* SpecIssue: purchases saved again after they were paid: by a webhook that  *)
(* reports its payment still pending, settled or failed, and by a cancel.    *)

IssueStatuses == {"pending", "success", "failed"}

NextIssue ==
    \/ Tick
    \/ \E st \in {"pending", "paid"} : PurchaseCreate(1, 1, st)
    \/ \E pid \in 1..MaxPurchases : PaymentCreate(pid, "pending")
    \/ \E ref \in 1..MaxPayments, st \in IssueStatuses : Webhook(ref, st)
    \/ \E id \in 1..MaxPurchases : CancelView(id)

SpecIssue == Init /\ [][NextIssue]_vars

(* Event.total_tickets_sold and EventViewSet.destroy.  Every ticket type of   *)
(* the model belongs to the one event.                                       *)

RECURSIVE TotalPaidUpTo(_, _)
TotalPaidUpTo(P, i) ==
    IF i = 0 THEN 0
    ELSE TotalPaidUpTo(P, i - 1) + (IF P[i].status = "paid" THEN P[i].quantity ELSE 0)

\* Mutant: only the purchases of the first ticket type are counted.
total_tickets_sold_first_ticket(P) == SumPaid(P, 1)

\* Purchase.objects.filter(ticket__event=self, status='paid').aggregate(Sum) or 0
total_tickets_sold(P) == TotalPaidUpTo(P, Len(P))

\* self.get_object() looks the event up among the active ones: 404 otherwise.
EventDestroy ==
    /\ IF ~events[1].is_active
       THEN /\ response' = Resp("event_destroy", 404, "not_found", 1)
            /\ UNCHANGED events
       ELSE IF total_tickets_sold(purchases) > 0
       THEN /\ response' = Resp("event_destroy", 400, "has_sold_tickets", 1)
            /\ UNCHANGED events
       ELSE /\ events' = [events EXCEPT ![1].is_active = FALSE]
            /\ response' = Resp("event_destroy", 204, "deleted", 1)
    /\ UNCHANGED <<now, tickets, purchases, validations, payments, procs,
                   refund_requests, refunds, attendees>>

(* SpecEvent: deleting the event while purchases are created and cancelled. *)

NextEvent ==
    \/ Tick
    \/ \E tk \in Tickets, q \in 1..MaxQty, st \in {"pending", "paid"} :
          PurchaseCreate(tk, q, st)
    \/ \E id \in 1..MaxPurchases : CancelView(id)
    \/ EventDestroy

SpecEvent == Init /\ [][NextEvent]_vars

(* SpecDesk: creating, buying and cancelling purchases, without payments. *)

NextDesk ==
    \/ Tick
    \/ \E tk \in Tickets, q \in 1..MaxQty, st \in {"pending", "paid"} :
          PurchaseCreate(tk, q, st)
    \/ \E tk \in Tickets, q \in 1..MaxQty, ok \in BOOLEAN : PurchaseView(tk, q, ok)
    \/ \E id \in 1..MaxPurchases : CancelView(id)

SpecDesk == Init /\ [][NextDesk]_vars

(* SpecGate: purchase requests against tickets that may be inactive, sold    *)
(* out or outside their sale window.                                         *)

InitGate ==
    /\ now \in InitialTimes
    /\ \E a1, a2 \in BOOLEAN :
          tickets = [tk \in Tickets |->
                        [InitTickets[tk] EXCEPT !.is_active = IF tk = 1 THEN a1 ELSE a2]]
    /\ purchases = <<>>
    /\ validations = <<>>
    /\ payments = <<>>
    /\ response = Resp("none", 0, "none", 0)
    /\ procs = IdleProcs
    /\ refund_requests = <<>>
    /\ refunds = <<>>
    /\ attendees = <<>>
    /\ events = InitEvents

NextGate ==
    \/ Tick
    \/ \E tk \in Tickets, q \in 1..MaxQty : PurchaseCreate(tk, q, "paid")
    \/ \E tk \in Tickets, q \in 1..MaxQty, ok \in BOOLEAN : PurchaseView(tk, q, ok)

SpecGate == InitGate /\ [][NextGate]_vars

(* SpecOffer: Ticket.can_purchase as a function of the ticket row, the       *)
(* quantity and the time.                                                    *)

OfferRows ==
    [quantity_available : 1..MaxAvailable, quantity_sold : 0..(MaxAvailable + 1),
     is_active : BOOLEAN, price : {Price},
     sale_start_datetime : {NoTime, 24}, sale_end_datetime : {NoTime, 25}]

InitOffer ==
    /\ now \in 23..MaxTime
    /\ \E row \in OfferRows : tickets = [tk \in Tickets |-> row]
    /\ purchases = <<>>
    /\ validations = <<>>
    /\ payments = <<>>
    /\ response = Resp("none", 0, "none", 0)
    /\ procs = IdleProcs
    /\ refund_requests = <<>>
    /\ refunds = <<>>
    /\ attendees = <<>>
    /\ events = InitEvents

\* ticket.can_purchase(quantity)
CanPurchase(quantity) ==
    /\ response' = Resp("can_purchase", 0,
                        IF can_purchase(tickets[1], quantity, now) THEN "true" ELSE "false",
                        quantity)
    /\ UNCHANGED <<now, tickets, purchases, validations, payments, procs,
                   refund_requests,
                   refunds, attendees, events>>

NextOffer == \E quantity \in 0..(MaxQty + 1) : CanPurchase(quantity)

SpecOffer == InitOffer /\ [][NextOffer]_vars

----------------------------------------------------------------------------
(* SpecLedger: the inventory ledger under the handlers that sell, cancel,    *)
(* settle and resize.  The purchases table starts as direct creation leaves  *)
(* it (the API tests seed their rows this way), for every seeding of at most *)
(* MaxPurchases rows that is not oversold.                                   *)

Seeds == [ticket : Tickets, quantity : 1..MaxQty, status : {"pending", "paid"}]

SeedLists == UNION {[1..k -> Seeds] : k \in 0..MaxPurchases}

RECURSIVE Seeded(_, _, _)
Seeded(seeds, i, n) ==
    IF i = 0 THEN [purchases |-> <<>>, tickets |-> InitTickets]
    ELSE LET db == Seeded(seeds, i - 1, n)
             s == PurchaseSave(db.purchases, db.tickets, None,
                      NewPurchase(seeds[i].ticket, seeds[i].quantity, Price,
                                  seeds[i].status, 0), n)
         IN  [purchases |-> s.purchases, tickets |-> s.tickets]

InitLedger ==
    /\ now \in InitialTimes
    /\ \E seeds \in SeedLists :
          LET db == Seeded(seeds, Len(seeds), now)
          IN  /\ \A tk \in Tickets :
                    db.tickets[tk].quantity_sold <= db.tickets[tk].quantity_available
              /\ purchases = db.purchases
              /\ tickets = db.tickets
    /\ validations = <<>>
    /\ payments = <<>>
    /\ response = Resp("none", 0, "none", 0)
    /\ procs = IdleProcs
    /\ refund_requests = <<>>
    /\ refunds = <<>>
    /\ attendees = <<>>
    /\ events = InitEvents

NextLedger ==
    \/ Tick
    \/ \E tk \in Tickets, q \in 1..MaxQty, ok \in BOOLEAN : PurchaseView(tk, q, ok)
    \/ \E id \in 1..MaxPurchases : CancelView(id)
    \/ \E tk \in Tickets, value \in 0..MaxAvailable : TicketUpdate(tk, value)
    \/ \E pid \in 1..MaxPurchases : PaymentCreate(pid, "pending")
    \/ \E ref \in 1..MaxPayments, st \in WebhookStatuses : Webhook(ref, st)

SpecLedger == InitLedger /\ [][NextLedger]_vars

----------------------------------------------------------------------------
(* SpecConc: purchase requests handled by concurrent workers.  The handler   *)
(* is split where it reads or writes the database.  Rows a transaction       *)
(* writes become visible at its commit; its reads see what is committed.     *)

ConcQuantities == {3}

InitConc ==
    /\ now = 24
    /\ tickets = (1 :> TicketRow(10, NoTime, NoTime)) @@ (2 :> TicketRow(3, NoTime, NoTime))
    /\ purchases = <<>>
    /\ validations = <<>>
    /\ payments = <<>>
    /\ response = Resp("none", 0, "none", 0)
    /\ procs = IdleProcs
    /\ refund_requests = <<>>
    /\ refunds = <<>>
    /\ attendees = <<>>
    /\ events = InitEvents

SetProc(p, rec) ==
    /\ procs' = [procs EXCEPT ![p] = rec]

\* ticket = self.get_object(); ticket.can_purchase(quantity); ticket.event.is_past
PCheck(p, q) ==
    /\ procs[p].pc = "idle"
    /\ tickets[1].is_active
    /\ IF ~can_purchase(tickets[1], q, now) \/ is_past(Event, now)
       THEN SetProc(p, [procs[p] EXCEPT !.pc = "done", !.quantity = q, !.code = 400])
       ELSE SetProc(p, [procs[p] EXCEPT !.pc = "checked", !.quantity = q])
    /\ UNCHANGED <<now, tickets, purchases, validations, payments, response, refund_requests,
                   refunds, attendees, events>>

\* transaction.atomic(): purchase_serializer.save() inserts the pending row and
\* recomputes quantity_sold from the committed paid purchases.
PInsert(p) ==
    /\ procs[p].pc = "checked"
    /\ SetProc(p, [procs[p] EXCEPT !.pc = "created", !.status = "pending",
                                   !.sold = SumPaid(purchases, 1)])
    /\ UNCHANGED <<now, tickets, purchases, validations, payments, response, refund_requests,
                   refunds, attendees, events>>

\* payment_service.process_payment(payment_data) and the branch on its result:
\* the second save of the purchase, or the exception that rolls the request back.
PGateway(p, ok) ==
    /\ procs[p].pc = "created"
    /\ LET payment_result == process_payment(ok)
       IN  IF payment_result.success
           THEN IF "reference" \in DOMAIN payment_result
                THEN SetProc(p, [procs[p] EXCEPT !.pc = "saved", !.status = "paid",
                                     !.sold = SumPaid(purchases, 1) + procs[p].quantity,
                                     !.code = 201])
                ELSE SetProc(p, [procs[p] EXCEPT !.pc = "done", !.status = "none",
                                     !.code = 500])
           ELSE SetProc(p, [procs[p] EXCEPT !.pc = "saved", !.status = "cancelled",
                                !.sold = SumPaid(purchases, 1), !.code = 400])
    /\ UNCHANGED <<now, tickets, purchases, validations, payments, response, refund_requests,
                   refunds, attendees, events>>

\* Leaving transaction.atomic(): the purchase row and the quantity_sold the
\* request computed are committed.
PCommit(p) ==
    /\ procs[p].pc = "saved"
    /\ LET c == PurchaseSave(purchases, tickets, None,
                    NewPurchase(1, procs[p].quantity, tickets[1].price, "pending",
                                tickets[1].price * procs[p].quantity), now)
           s == PurchaseSave(c.purchases, c.tickets, c.pk,
                    [c.purchases[c.pk] EXCEPT !.status = procs[p].status], now)
       IN  /\ purchases' = s.purchases
           /\ tickets' = [tickets EXCEPT ![1].quantity_sold = procs[p].sold]
    /\ SetProc(p, [procs[p] EXCEPT !.pc = "done"])
    /\ UNCHANGED <<now, validations, payments, response, refund_requests,
                   refunds, attendees, events>>

NextConc ==
    \/ \E p \in 1..NumProcs, q \in ConcQuantities : PCheck(p, q)
    \/ \E p \in 1..NumProcs : PInsert(p)
    \/ \E p \in 1..NumProcs, ok \in BOOLEAN : PGateway(p, ok)
    \/ \E p \in 1..NumProcs : PCommit(p)

SpecConc == InitConc /\ [][NextConc]_vars

----------------------------------------------------------------------------
(* SpecScan: validate_qr requests interleaved between the recent-validation  *)
(* query and the insert of the record.  Every request sends a payload that  *)
(* names the purchase's id.                                                  *)

InitScan ==
    /\ now = 24
    /\ tickets = InitTickets
    /\ \E seeds \in [1..1 -> [ticket : {1}, quantity : {1}, status : {"paid"}]] :
          purchases = Seeded(seeds, 1, now).purchases
    /\ validations = <<>>
    /\ payments = <<>>
    /\ response = Resp("none", 0, "none", 0)
    /\ procs = IdleProcs
    /\ refund_requests = <<>>
    /\ refunds = <<>>
    /\ attendees = <<>>
    /\ events = InitEvents

ScanPayload(pid) ==
    Dumps([purchase_id |-> Str(pid), reference |-> NoRef, quantity |-> 0])

\* json.loads ... TicketValidation.objects.filter(...).first(): every check of
\* validate_qr, up to the decision to create a record.
SCheck(p, pid) ==
    /\ procs[p].pc = "idle"
    /\ LET r == validate_qr(ScanPayload(pid), purchases, validations, now)
       IN  IF r.outcome = "success"
           THEN SetProc(p, [procs[p] EXCEPT !.pc = "checked", !.arg = pid])
           ELSE SetProc(p, [procs[p] EXCEPT !.pc = "done", !.arg = pid,
                                !.status = r.outcome, !.code = r.code])
    /\ UNCHANGED <<now, tickets, purchases, validations, payments, response,
                   refund_requests,
                   refunds, attendees, events>>

\* TicketValidation.objects.create(purchase=purchase, ...)
SCreate(p) ==
    /\ procs[p].pc = "checked"
    /\ validations' = Append(validations, NewValidation(procs[p].arg, now))
    /\ SetProc(p, [procs[p] EXCEPT !.pc = "done", !.status = "success", !.code = 200])
    /\ UNCHANGED <<now, tickets, purchases, payments, response, refund_requests,
                   refunds, attendees, events>>

NextScan ==
    \/ Tick
    \/ \E p \in 1..NumProcs, pid \in DOMAIN purchases : SCheck(p, pid)
    \/ \E p \in 1..NumProcs : SCreate(p)

SpecScan == InitScan /\ [][NextScan]_vars

----------------------------------------------------------------------------
(* Refund requests: RefundRequestViewSet.create and review,                  *)
(* PaymentService.process_refund.                                            *)

\* Payment.can_be_refunded
can_be_refunded(pay) == pay.status = "success"

OutstandingStatuses == {"pending", "approved", "processing"}

\* Mutant: only pending requests count as outstanding.
existing_refunds_pending_only(RR, ref) ==
    {i \in DOMAIN RR : RR[i].payment = ref /\ RR[i].status = "pending"}

\* RefundRequest.objects.filter(payment=payment, status__in=[...])
existing_refunds(RR, ref) ==
    {i \in DOMAIN RR : RR[i].payment = ref /\ RR[i].status \in OutstandingStatuses}

\* RefundRequestCreateSerializer: validate_amount, then validate.
RefundValidate(pay, ref, amount, RR) ==
    IF amount <= 0 THEN "amount_not_positive"
    ELSE IF ~can_be_refunded(pay) THEN "cannot_be_refunded"
    ELSE IF amount > pay.amount THEN "exceeds_payment"
    ELSE IF existing_refunds(RR, ref) # {} THEN "already_pending"
    ELSE "ok"

NewRefundRequest(ref, amount) ==
    [payment |-> ref, amount |-> amount, status |-> "pending", admin_notes |-> <<>>,
     refund_reference |-> NoRef, processed_amount |-> NoAmount]

(* RefundRequestViewSet.create *)
RefundCreate(ref, amount) ==
    /\ Len(refund_requests) < MaxRefundRequests
    /\ IF ref \notin DOMAIN payments
       THEN /\ response' = Resp("refund_create", 404, "not_found", ref)
            /\ UNCHANGED refund_requests
       ELSE LET v == RefundValidate(payments[ref], ref, amount, refund_requests)
            IN  IF v = "ok"
                THEN /\ refund_requests' =
                            Append(refund_requests, NewRefundRequest(ref, amount))
                     /\ response' = Resp("refund_create", 201, "pending",
                                         Len(refund_requests) + 1)
                ELSE /\ response' = Resp("refund_create", 400, v, ref)
                     /\ UNCHANGED refund_requests
    /\ UNCHANGED <<now, tickets, purchases, validations, payments, procs,
                   refunds, attendees, events>>

\* Mutant: the request's own status is not looked at.
can_be_approved_any_status(rr, pay) == can_be_refunded(pay)

\* RefundRequest.can_be_approved
can_be_approved(rr, pay) == rr.status = "pending" /\ can_be_refunded(pay)

\* PaymentService.process_refund: ok is the outcome of the gateway's draw.  On
\* success it reads payment.payment_method, which a Payment does not have; the
\* AttributeError is caught and reported as a failure.
\* created holds the Refund row of Refund.objects.create(...), which is reached
\* only after payment.payment_method has been read.
process_refund(pay, ok) ==
    IF ok
    THEN IF "payment_method" \in DOMAIN pay
         THEN [success |-> TRUE, refund_reference |-> <<"RF", 1>>, error |-> "",
               created |-> <<[status |-> "completed",
                              refund_reference |-> <<"RF", 1>>]>>]
         ELSE [success |-> FALSE, refund_reference |-> NoRef, error |-> "processing_error",
               created |-> <<>>]
    ELSE [success |-> FALSE, refund_reference |-> NoRef, error |-> "processing_failed",
          created |-> <<>>]

(* RefundRequestViewSet.review, action approve, up to refund_request.approve():  *)
(* the request is saved as approved before the refund is processed.              *)
ReviewApprove(p, id) ==
    /\ procs[p].pc = "idle"
    /\ id \in DOMAIN refund_requests
    /\ IF can_be_approved(refund_requests[id], payments[refund_requests[id].payment])
       THEN /\ refund_requests' = [refund_requests EXCEPT ![id].status = "approved"]
            /\ SetProc(p, [procs[p] EXCEPT !.pc = "approved", !.arg = id])
            /\ UNCHANGED response
       ELSE /\ response' = Resp("review", 400, "cannot_be_approved", id)
            /\ UNCHANGED <<refund_requests, procs>>
    /\ UNCHANGED <<now, tickets, purchases, validations, payments,
                   refunds, attendees, events>>

(* RefundRequestViewSet.review, action approve, from process_refund to the  *)
(* response.                                                                 *)
ReviewProcess(p, ok) ==
    /\ procs[p].pc = "approved"
    /\ LET id == procs[p].arg
           rr == refund_requests[id]
           refund_result == process_refund(payments[rr.payment], ok)
       IN  /\ refund_requests' =
                 [refund_requests EXCEPT ![id] =
                     IF refund_result.success
                     THEN [rr EXCEPT !.status = "completed",
                                     !.refund_reference = refund_result.refund_reference,
                                     !.processed_amount = rr.amount]
                     ELSE [rr EXCEPT !.status = "failed",
                                     !.admin_notes = Append(rr.admin_notes,
                                                            refund_result.error)]]
           /\ refunds' = refunds \o
                 [i \in DOMAIN refund_result.created |->
                     [payment |-> rr.payment, refund_request |-> id, amount |-> rr.amount,
                      status |-> refund_result.created[i].status,
                      refund_reference |-> refund_result.created[i].refund_reference]]
           /\ response' = RespG("review", 200, refund_requests'[id].status, id,
                                IF ok THEN "success" ELSE "failure")
    /\ SetProc(p, [procs[p] EXCEPT !.pc = "idle"])
    /\ UNCHANGED <<now, tickets, purchases, validations, payments,
                   attendees, events>>

(* RefundRequestViewSet.review, action reject *)
ReviewReject(id) ==
    /\ id \in DOMAIN refund_requests
    /\ IF refund_requests[id].status = "pending"
       THEN /\ refund_requests' = [refund_requests EXCEPT ![id].status = "rejected"]
            /\ response' = Resp("review", 200, "rejected", id)
       ELSE /\ response' = Resp("review", 400, "not_pending", id)
            /\ UNCHANGED refund_requests
    /\ UNCHANGED <<now, tickets, purchases, validations, payments, procs,
                   refunds, attendees, events>>

RefundAmounts == {0, Price, Price + Price}

Reviewers == {1, 2}

(* SpecRefund: refund requests created and reviewed. *)

NextRefund ==
    \/ \E st \in {"success", "pending"} : PaymentCreate(None, st)
    \/ \E ref \in 1..MaxPayments, st \in WebhookStatuses : Webhook(ref, st)
    \/ \E ref \in 1..(MaxPayments + 1), amount \in RefundAmounts : RefundCreate(ref, amount)
    \/ \E p \in Reviewers, id \in 1..MaxRefundRequests : ReviewApprove(p, id)
    \/ \E p \in Reviewers, ok \in BOOLEAN : ReviewProcess(p, ok)
    \/ \E id \in 1..MaxRefundRequests : ReviewReject(id)

SpecRefund == Init /\ [][NextRefund]_vars

(* SpecRefundConc: RefundRequestViewSet.create requests interleaved between *)
(* the serializer's validation and the insert.                               *)

InitRefundConc ==
    /\ now \in InitialTimes
    /\ tickets = InitTickets
    /\ purchases = <<>>
    /\ validations = <<>>
    /\ payments = <<NewPayment(None, "success", Price)>>
    /\ response = Resp("none", 0, "none", 0)
    /\ procs = IdleProcs
    /\ refund_requests = <<>>
    /\ refunds = <<>>
    /\ attendees = <<>>
    /\ events = InitEvents

\* serializer.is_valid(): RefundRequestCreateSerializer against the table as it
\* is; the request keeps the payment in arg and the amount in quantity.
RCheck(p, ref, amount) ==
    /\ procs[p].pc = "idle"
    /\ LET v == RefundValidate(payments[ref], ref, amount, refund_requests)
       IN  IF v = "ok"
           THEN SetProc(p, [procs[p] EXCEPT !.pc = "checked", !.arg = ref,
                                !.quantity = amount])
           ELSE SetProc(p, [procs[p] EXCEPT !.pc = "done", !.arg = ref,
                                !.quantity = amount, !.status = v, !.code = 400])
    /\ UNCHANGED <<now, tickets, purchases, validations, payments, response,
                   refund_requests,
                   refunds, attendees, events>>

\* serializer.save(payment=payment, requested_by=request.user)
RInsert(p) ==
    /\ procs[p].pc = "checked"
    /\ refund_requests' = Append(refund_requests,
                              NewRefundRequest(procs[p].arg, procs[p].quantity))
    /\ SetProc(p, [procs[p] EXCEPT !.pc = "done", !.status = "pending", !.code = 201])
    /\ UNCHANGED <<now, tickets, purchases, validations, payments, response,
                   refunds, attendees, events>>

NextRefundConc ==
    \/ \E p \in 1..NumProcs, ref \in DOMAIN payments, amount \in RefundAmounts :
          RCheck(p, ref, amount)
    \/ \E p \in 1..NumProcs : RInsert(p)

SpecRefundConc == InitRefundConc /\ [][NextRefundConc]_vars

(* SpecReconcile: PurchaseViewSet.cancel requests handled by concurrent       *)
(* workers.  cancel runs outside any transaction, so each statement of       *)
(* Purchase.save and update_ticket_quantity is committed on its own: the     *)
(* save of the row, the aggregate over the paid purchases, the write of      *)
(* quantity_sold.                                                            *)

InitReconcile ==
    /\ now \in InitialTimes
    /\ \E seeds \in [1..MaxPurchases -> [ticket : {2}, quantity : 1..MaxQty,
                                          status : {"paid"}]] :
          LET db == Seeded(seeds, Len(seeds), now)
          IN  /\ db.tickets[2].quantity_sold <= db.tickets[2].quantity_available
              /\ purchases = db.purchases
              /\ tickets = db.tickets
    /\ validations = <<>>
    /\ payments = <<>>
    /\ response = Resp("none", 0, "none", 0)
    /\ procs = IdleProcs
    /\ refund_requests = <<>>
    /\ refunds = <<>>
    /\ attendees = <<>>
    /\ events = InitEvents

\* purchase = self.get_object(); purchase.can_be_cancelled; purchase.cancel() up
\* to super().save(): the row is written with status cancelled.
CancelSave(p, id) ==
    /\ procs[p].pc = "idle"
    /\ id \in DOMAIN purchases
    /\ IF ~can_be_cancelled(purchases[id], now)
       THEN /\ SetProc(p, [procs[p] EXCEPT !.pc = "done", !.arg = id, !.code = 400])
            /\ UNCHANGED purchases
       ELSE /\ purchases' = PurchaseSave(purchases, tickets, id,
                                [purchases[id] EXCEPT !.status = "cancelled"], now).purchases
            /\ SetProc(p, [procs[p] EXCEPT !.pc = "saved", !.arg = id,
                                 !.status = "cancelled"])
    /\ UNCHANGED <<now, tickets, validations, payments, response, refund_requests,
                   refunds, attendees, events>>

\* update_ticket_quantity: Purchase.objects.filter(ticket=, status='paid').aggregate(...)
CancelRead(p) ==
    /\ procs[p].pc = "saved"
    /\ SetProc(p, [procs[p] EXCEPT !.pc = "read",
                         !.sold = SumPaid(purchases, purchases[procs[p].arg].ticket)])
    /\ UNCHANGED <<now, tickets, purchases, validations, payments, response,
                   refund_requests, refunds, attendees, events>>

\* update_ticket_quantity: self.ticket.save(update_fields=['quantity_sold'])
CancelWrite(p) ==
    /\ procs[p].pc = "read"
    /\ tickets' = [tickets EXCEPT ![purchases[procs[p].arg].ticket].quantity_sold =
                                       procs[p].sold]
    /\ SetProc(p, [procs[p] EXCEPT !.pc = "done", !.code = 200])
    /\ UNCHANGED <<now, purchases, validations, payments, response, refund_requests,
                   refunds, attendees, events>>

NextReconcile ==
    \/ \E p \in 1..NumProcs, id \in 1..MaxPurchases : CancelSave(p, id)
    \/ \E p \in 1..NumProcs : CancelRead(p)
    \/ \E p \in 1..NumProcs : CancelWrite(p)

SpecReconcile == InitReconcile /\ [][NextReconcile]_vars

(* SpecSettle: refund requests on payments that belong to purchases, with    *)
(* the webhook, the retry and the cancel that can touch the same rows.       *)

NextSettle ==
    \/ PurchaseCreate(2, 1, "paid")
    \/ \E pid \in 0..MaxPurchases, st \in {"success", "failed"} : PaymentCreate(pid, st)
    \/ \E id \in 1..MaxPurchases : CancelView(id)
    \/ \E ref \in 1..MaxPayments, st \in WebhookStatuses : Webhook(ref, st)
    \/ \E ref \in 1..MaxPayments, ok \in BOOLEAN : Retry(ref, ok)
    \/ \E ref \in 1..MaxPayments : RefundCreate(ref, Price)
    \/ \E id \in 1..MaxRefundRequests : ReviewApprove(1, id)
    \/ \E ok \in BOOLEAN : ReviewProcess(1, ok)
    \/ \E id \in 1..MaxRefundRequests : ReviewReject(id)

SpecSettle == Init /\ [][NextSettle]_vars

----------------------------------------------------------------------------
(* Properties *)

RECURSIVE SumQuantity(_)
SumQuantity(ids) ==
    IF ids = {} THEN 0
    ELSE LET i == CHOOSE x \in ids : TRUE
         IN  purchases[i].quantity + SumQuantity(ids \ {i})

\* The quantities of the paid purchases of a ticket type, summed.
PaidQuantity(tk) ==
    SumQuantity({i \in DOMAIN purchases :
                    purchases[i].ticket = tk /\ purchases[i].status = "paid"})

HasCredential(p) == p.qr_code /\ p.qr_code_data # BlankText

InEventWindow(n) == Date(n) >= Date(Event.start_datetime) /\ n <= Event.end_datetime

\* C1: quantity_sold never exceeds quantity_available, whatever the purchase,
\* cancel, webhook and quantity_available-update handlers do to a ledger that
\* was not oversold; an update below quantity_sold is rejected.
C1_SoldWithinAvailable ==
    \A tk \in Tickets : tickets[tk].quantity_sold <= tickets[tk].quantity_available

C1_Witness ==
    /\ response.op = "ticket_update"
    /\ response.outcome = "below_sold"
    /\ tickets[response.arg].quantity_sold = tickets[response.arg].quantity_available

C3_SoldIsPaidSum ==
    \A tk \in Tickets : tickets[tk].quantity_sold = PaidQuantity(tk)

C3_Witness ==
    /\ response.op = "cancel"
    /\ response.outcome = "cancelled"
    /\ purchases[response.arg].paid_at # NoTime
    /\ \E i \in DOMAIN purchases :
          /\ purchases[i].status = "paid"
          /\ purchases[i].ticket = purchases[response.arg].ticket
          /\ tickets[purchases[i].ticket].quantity_sold = purchases[i].quantity

AllowedTransitions ==
    {<<"pending", "paid">>, <<"pending", "cancelled">>,
     <<"paid", "cancelled">>, <<"paid", "refunded">>}

\* C4: a purchase's status is one of pending, paid, cancelled, refunded and
\* changes only along pending->paid, pending->cancelled, paid->cancelled,
\* paid->refunded.
C4_Lifecycle ==
    [][\A id \in DOMAIN purchases' :
          /\ purchases'[id].status \in PurchaseStatuses
          /\ (id \in DOMAIN purchases /\ purchases'[id].status # purchases[id].status)
                => <<purchases[id].status, purchases'[id].status>> \in AllowedTransitions
      ]_vars

\* C5: a purchase request on a purchasable ticket whose payment the gateway
\* accepts answers 201 and leaves a paid purchase with paid_at, a credential and
\* the payment reference, and quantity_sold raised by the quantity.
C5_GatewaySuccessPays ==
    [][\A tk \in Tickets, q \in 1..MaxQty :
          (/\ PurchaseView(tk, q, TRUE)
           /\ can_purchase(tickets[tk], q, now)
           /\ ~is_past(Event, now))
          => /\ response'.code = 201
             /\ Len(purchases') = Len(purchases) + 1
             /\ purchases'[Len(purchases')].status = "paid"
             /\ purchases'[Len(purchases')].paid_at # NoTime
             /\ HasCredential(purchases'[Len(purchases')])
             /\ purchases'[Len(purchases')].payment_reference # NoRef
             /\ tickets'[tk].quantity_sold = tickets[tk].quantity_sold + q
      ]_vars

\* C6 as claimed: a purchase has a credential if and only if it is paid.
C6_CredentialIffPaid ==
    \A id \in DOMAIN purchases :
        HasCredential(purchases[id]) <=> purchases[id].status = "paid"

\* C6 as amended: a paid purchase has a credential and a pending one has none;
\* a purchase has a credential exactly when it has been paid, and keeps it when
\* it leaves paid.
C6_CredentialIffEverPaid ==
    \A id \in DOMAIN purchases :
        /\ purchases[id].status = "paid" => HasCredential(purchases[id])
        /\ purchases[id].status = "pending" => ~HasCredential(purchases[id])
        /\ HasCredential(purchases[id]) <=> purchases[id].paid_at # NoTime
        /\ purchases[id].qr_code <=> purchases[id].qr_code_data # BlankText

C6_Witness ==
    \E id \in DOMAIN purchases :
        /\ purchases[id].status = "cancelled"
        /\ HasCredential(purchases[id])
        /\ response.op = "cancel" /\ response.arg = id

\* C7: the purchase_id in a stored credential is the purchase's own id and the
\* reference in it is the purchase's purchase_reference.
C7_CredentialNamesPurchase ==
    \A id \in DOMAIN purchases :
        HasCredential(purchases[id]) =>
            /\ IsJson(purchases[id].qr_code_data)
            /\ Loads(purchases[id].qr_code_data).purchase_id = Str(id)
            /\ Loads(purchases[id].qr_code_data).reference = purchases[id].purchase_reference

\* The purchase a payload names, None when it names none.
Named(payload) ==
    IF IsJson(payload) /\ IsInt(Loads(payload).purchase_id)
       /\ ParseInt(Loads(payload).purchase_id) \in DOMAIN purchases
    THEN ParseInt(Loads(payload).purchase_id)
    ELSE None

ValidatedWithin(pid, n) ==
    {i \in DOMAIN validations :
        /\ validations[i].purchase = pid
        /\ n - validations[i].validation_datetime <= RecentHours}

\* C8: submitting the credential stored on a paid purchase, inside the event
\* window and with no validation yet, is accepted and creates exactly one
\* validation record, for that purchase.
C8_StoredCredentialRoundTrip ==
    [][\A id \in DOMAIN purchases :
          (/\ ValidateQr(purchases[id].qr_code_data)
           /\ HasCredential(purchases[id])
           /\ purchases[id].status = "paid"
           /\ InEventWindow(now)
           /\ \A i \in DOMAIN validations : validations[i].purchase # id)
          => /\ response'.outcome = "success"
             /\ validations' = Append(validations, validations'[Len(validations')])
             /\ validations'[Len(validations')].purchase = id
      ]_vars

\* C9: a scan creates a validation record only when the named purchase is paid
\* at that moment, today's date is not before the event's start date and the
\* event has not ended; a scan naming a purchase that is not paid, or made
\* outside that window, is rejected and creates no record.
C9_RecordOnlyWhenPaidInWindow ==
    [][\A payload \in Payloads :
          ValidateQr(payload) =>
            /\ validations' # validations
                  => /\ Named(payload) # None
                     /\ purchases[Named(payload)].status = "paid"
                     /\ Date(now) >= Date(Event.start_datetime)
                     /\ now <= Event.end_datetime
            /\ (/\ Named(payload) # None
                /\ (purchases[Named(payload)].status # "paid" \/ ~InEventWindow(now)))
                  => /\ validations' = validations
                     /\ response'.code = 400
      ]_vars

C9_Witness ==
    /\ response.op = "validate_qr"
    /\ response.outcome = "not_valid"
    /\ purchases[response.arg].status = "cancelled"
    /\ \E i \in DOMAIN validations : validations[i].purchase = response.arg

\* C10 as claimed: a scan naming a purchase that has a validation within the
\* last hour answers with a warning carrying that record and creates none.
C10_RecentScanWarns ==
    [][\A payload \in Payloads :
          (/\ ValidateQr(payload)
           /\ Named(payload) # None
           /\ ValidatedWithin(Named(payload), now) # {})
          => /\ response'.outcome = "warning"
             /\ response'.arg \in ValidatedWithin(Named(payload), now)
             /\ validations' = validations
      ]_vars

\* C10 as amended: the warning is given when the purchase is still paid and the
\* scan is inside the event window; a scan naming a purchase that has a
\* validation within the last hour never creates a record.
C10_RecentScanWarnsWhilePaidInWindow ==
    [][\A payload \in Payloads :
          (/\ ValidateQr(payload)
           /\ Named(payload) # None
           /\ ValidatedWithin(Named(payload), now) # {})
          => /\ validations' = validations
             /\ (purchases[Named(payload)].status = "paid" /\ InEventWindow(now))
                  => /\ response'.outcome = "warning"
                     /\ response'.code = 200
                     /\ response'.arg \in ValidatedWithin(Named(payload), now)
      ]_vars

C10_Witness ==
    /\ response.op = "validate_qr"
    /\ response.outcome = "warning"
    /\ Len(validations) = 1
    /\ now = validations[response.arg].validation_datetime + RecentHours

\* C11: validate_qr calls for one purchase that overlap never both get the
\* accepted outcome: no two validation records of a purchase lie within
\* RecentHours of each other.
C11_OneRecordPerHour ==
    \A i, j \in DOMAIN validations :
        (i < j /\ validations[i].purchase = validations[j].purchase)
          => validations[j].validation_datetime - validations[i].validation_datetime
                > RecentHours

\* C12: a cancel of a purchase that has a validation record fails with the
\* not-cancellable outcome and changes neither the purchase nor quantity_sold.
C12_NoCancelAfterValidation ==
    [][\A id \in DOMAIN purchases :
          (/\ CancelView(id)
           /\ \E i \in DOMAIN validations : validations[i].purchase = id)
          => /\ response'.outcome = "not_cancellable"
             /\ response'.code = 400
             /\ purchases'[id].status = purchases[id].status
             /\ tickets'[purchases[id].ticket].quantity_sold
                   = tickets[purchases[id].ticket].quantity_sold
      ]_vars

\* C13: cancel succeeds exactly for a pending or paid purchase whose event
\* starts strictly after now, and then quantity_sold drops by the quantity of a
\* paid purchase; otherwise it fails with the not-cancellable error and leaves
\* the purchase and quantity_sold unchanged.
C13_CancelRules ==
    [][\A id \in DOMAIN purchases :
          CancelView(id) =>
            LET p == purchases[id]
                sold == tickets[p.ticket].quantity_sold
            IN  IF p.status \in {"pending", "paid"} /\ now < Event.start_datetime
                THEN /\ response'.code = 200
                     /\ purchases'[id].status = "cancelled"
                     /\ tickets'[p.ticket].quantity_sold
                           = IF p.status = "paid" THEN sold - p.quantity ELSE sold
                ELSE /\ response'.code = 400
                     /\ response'.outcome = "not_cancellable"
                     /\ purchases' = purchases
                     /\ tickets' = tickets
      ]_vars

C13_Witness ==
    /\ response.op = "cancel"
    /\ response.outcome = "not_cancellable"
    /\ now = Event.start_datetime
    /\ purchases[response.arg].status = "paid"
    /\ \E i \in DOMAIN purchases :
          purchases[i].status = "cancelled" /\ purchases[i].paid_at # NoTime

\* The spec's is_purchasable: active, 0 < quantity <= remaining, and now in
\* the half-open sale window [sale_start, sale_end), an unset bound being open.
IsPurchasable(t, quantity, n) ==
    /\ t.is_active
    /\ 0 < quantity
    /\ quantity <= (IF t.quantity_available >= t.quantity_sold
                    THEN t.quantity_available - t.quantity_sold ELSE 0)
    /\ t.sale_start_datetime = NoTime \/ t.sale_start_datetime <= n
    /\ t.sale_end_datetime = NoTime \/ n < t.sale_end_datetime

\* C14: a purchase request for a ticket that is not purchasable for the
\* quantity (inactive, sold out, quantity above remaining, outside the sale
\* window), or whose event has ended, gets a client error, creates no purchase
\* and leaves quantity_sold unchanged.
C14_RejectedWithoutTrace ==
    [][\A tk \in Tickets, q \in 1..MaxQty, ok \in BOOLEAN :
          (/\ PurchaseView(tk, q, ok)
           /\ ~IsPurchasable(tickets[tk], q, now) \/ now > Event.end_datetime)
          => /\ response'.code \in 400..499
             /\ purchases' = purchases
             /\ tickets' = tickets
      ]_vars

\* C15: can_purchase(ticket, quantity) at now is true exactly when the ticket
\* is active, 0 < quantity <= max(0, quantity_available - quantity_sold), and
\* now is in [sale_start, sale_end), an unset bound being open.
C15_CanPurchaseHalfOpen ==
    response.op = "can_purchase" =>
        (response.outcome = "true" <=> IsPurchasable(tickets[1], response.arg, now))

\* C16: every purchase's total_amount is its unit_price times its quantity; a
\* total handed to the constructor is replaced by the save.
C16_TotalIsPriceTimesQuantity ==
    \A id \in DOMAIN purchases :
        purchases[id].total_amount = purchases[id].unit_price * purchases[id].quantity

C16_Witness ==
    /\ response.op = "create"
    /\ purchases[response.arg].quantity > 1
    /\ purchases[response.arg].total_amount
          = purchases[response.arg].unit_price + purchases[response.arg].unit_price
    /\ \E id \in DOMAIN purchases :
          purchases[id].status = "cancelled" /\ purchases[id].total_amount > 0

\* C17: every payment has at most one refund request that is pending,
\* approved or processing, also when requests for it are submitted together.
C17_OneOutstandingRequest ==
    \A ref \in DOMAIN payments :
        Cardinality({i \in DOMAIN refund_requests :
                        /\ refund_requests[i].payment = ref
                        /\ refund_requests[i].status \in {"pending", "approved", "processing"}})
            <= 1

Outstanding(ref) ==
    {i \in DOMAIN refund_requests :
        /\ refund_requests[i].payment = ref
        /\ refund_requests[i].status \in {"pending", "approved", "processing"}}

CreatedPending(ref, amount) ==
    /\ response'.code = 201
    /\ refund_requests' = Append(refund_requests, refund_requests'[Len(refund_requests')])
    /\ refund_requests'[Len(refund_requests')].payment = ref
    /\ refund_requests'[Len(refund_requests')].amount = amount
    /\ refund_requests'[Len(refund_requests')].status = "pending"

\* C18 as claimed: creating a refund request fails and creates nothing when the
\* payment is not successful, the amount exceeds the payment amount or an
\* outstanding request exists; otherwise a pending request is created.
C18_RefundCreateRules ==
    [][\A ref \in DOMAIN payments, amount \in RefundAmounts :
          RefundCreate(ref, amount) =>
            IF \/ payments[ref].status # "success"
               \/ amount > payments[ref].amount
               \/ Outstanding(ref) # {}
            THEN response'.code = 400 /\ refund_requests' = refund_requests
            ELSE CreatedPending(ref, amount)
      ]_vars

\* C18 as amended: the same, with a fourth reason to fail: an amount that is
\* not greater than 0.
C18_RefundCreateRulesPositive ==
    [][\A ref \in DOMAIN payments, amount \in RefundAmounts :
          RefundCreate(ref, amount) =>
            IF \/ amount <= 0
               \/ payments[ref].status # "success"
               \/ amount > payments[ref].amount
               \/ Outstanding(ref) # {}
            THEN response'.code = 400 /\ refund_requests' = refund_requests
            ELSE CreatedPending(ref, amount)
      ]_vars

C18_Witness ==
    /\ response.op = "refund_create"
    /\ response.outcome = "already_pending"
    /\ \E i \in DOMAIN refund_requests :
          /\ refund_requests[i].payment = response.arg
          /\ refund_requests[i].status = "approved"

RefundTransitions ==
    {<<"pending", "approved">>, <<"pending", "rejected">>,
     <<"approved", "completed">>, <<"approved", "failed">>}

\* C19: a refund request's status changes only along pending->approved,
\* pending->rejected, approved->completed, approved->failed, and an approve or
\* reject of a request that is not pending fails and leaves it unchanged.
C19_RefundLifecycle ==
    [][/\ \A id \in DOMAIN refund_requests :
             refund_requests'[id].status # refund_requests[id].status
               => <<refund_requests[id].status, refund_requests'[id].status>>
                     \in RefundTransitions
       /\ \A id \in DOMAIN refund_requests :
             (/\ refund_requests[id].status # "pending"
              /\ ReviewReject(id) \/ \E p \in Reviewers : ReviewApprove(p, id))
               => /\ response'.code = 400
                  /\ refund_requests' = refund_requests
      ]_vars

C19_Witness ==
    /\ response.op = "review"
    /\ response.outcome = "cannot_be_approved"
    /\ refund_requests[response.arg].status = "failed"
    /\ \E i \in DOMAIN refund_requests : refund_requests[i].status = "rejected"

\* C20: once an approved review has run the refund, the request is completed,
\* with refund_reference set and processed_amount equal to the amount, if the
\* gateway accepted the refund, and failed, with the reason added to
\* admin_notes, if it did not; it is not left approved.
C20_ApprovedReviewSettles ==
    [][\A p \in Reviewers, ok \in BOOLEAN :
          ReviewProcess(p, ok) =>
            LET rr == refund_requests'[procs[p].arg]
            IN  IF ok
                THEN /\ rr.status = "completed"
                     /\ rr.refund_reference # NoRef
                     /\ rr.processed_amount = rr.amount
                ELSE /\ rr.status = "failed"
                     /\ Len(rr.admin_notes) = Len(refund_requests[procs[p].arg].admin_notes) + 1
      ]_vars

\* The Refund rows that reference refund request id.
RefundsOf(id) == {i \in DOMAIN refunds : refunds[i].refund_request = id}

C22_OneRefundPerApproval ==
    \A id \in DOMAIN refund_requests :
        CASE refund_requests[id].status \in {"completed", "failed"}
                -> Cardinality(RefundsOf(id)) = 1
          [] refund_requests[id].status \in {"pending", "rejected"}
                -> Cardinality(RefundsOf(id)) = 0
          [] OTHER -> Cardinality(RefundsOf(id)) <= 1

\* C23: validation records are append-only: no operation changes or removes an
\* existing record, the table only grows.
C23_ValidationsAppendOnly ==
    [][/\ Len(validations') >= Len(validations)
       /\ \A i \in DOMAIN validations : validations'[i] = validations[i]
      ]_vars

\* C24: a scan whose payload cannot be parsed or has no purchase id, and a scan
\* whose purchase id names no purchase, fail alike: the invalid-format client
\* error, and no validation record.
C24_MalformedCredentialAlike ==
    [][\A payload \in Payloads :
          (ValidateQr(payload) /\ Named(payload) = None)
          => /\ response'.code = 400
             /\ response'.outcome = "invalid_format"
             /\ validations' = validations
      ]_vars

\* C25: when the purchase-status transitions that run together on one ticket
\* type have all completed, quantity_sold is the summed quantity of the
\* ticket's paid purchases.
C25_ConcurrentReconcile ==
    (\A p \in 1..NumProcs : procs[p].pc \in {"idle", "done"})
        => \A tk \in Tickets : tickets[tk].quantity_sold = PaidQuantity(tk)

\* C26: issuing the credential is idempotent: once a purchase has a credential,
\* saving it again, any number of times, leaves the stored payload as it is.
C26_CredentialIssuedOnce ==
    [][\A id \in DOMAIN purchases :
          HasCredential(purchases[id])
            => /\ purchases'[id].qr_code_data = purchases[id].qr_code_data
               /\ purchases'[id].qr_code = purchases[id].qr_code
      ]_vars

C26_Witness ==
    /\ response.op = "webhook"
    /\ response.outcome = "pending"
    /\ payments[response.arg].purchase # None
    /\ LET p == purchases[payments[response.arg].purchase]
       IN  /\ p.status = "paid"
           /\ HasCredential(p)
           /\ p.paid_at < now

\* C27: a purchase request is all or nothing.  When it ends with the server
\* error, no purchase row, no attendee row and no change of quantity_sold
\* remain; when the gateway reports that the payment failed, exactly one
\* purchase remains, cancelled, and quantity_sold is unchanged.
C27_PurchaseAllOrNothing ==
    [][\A tk \in Tickets, q \in 1..MaxQty, ok \in BOOLEAN :
          PurchaseView(tk, q, ok) =>
            /\ response'.code = 500
                  => /\ purchases' = purchases
                     /\ attendees' = attendees
                     /\ tickets' = tickets
            /\ response'.gateway = "failure"
                  => /\ Len(purchases') = Len(purchases) + 1
                     /\ SubSeq(purchases', 1, Len(purchases)) = purchases
                     /\ purchases'[Len(purchases')].status = "cancelled"
                     /\ purchases'[Len(purchases')].ticket = tk
                     /\ attendees' = attendees
                     /\ tickets' = tickets
      ]_vars

C27_Witness ==
    /\ response.op = "purchase"
    /\ response.code = 500
    /\ response.gateway = "success"
    /\ Len(purchases) = 1
    /\ purchases[1].status = "cancelled"
    /\ purchases[1].paid_at = NoTime
    /\ attendees = <<>>

ServiceStatuses == {"completed", "failed", "cancelled", "pending"}

\* C28: the payment service never writes the status success.  A webhook or a
\* retry leaves the payment in completed, failed, cancelled or pending; a
\* payment that cannot be refunded never becomes refundable; and for such a
\* payment no refund request is created and none is approved.
C28_ServiceNeverWritesSuccess ==
    [][/\ \A ref \in DOMAIN payments :
             /\ ~can_be_refunded(payments[ref]) => ~can_be_refunded(payments'[ref])
             /\ payments'[ref].status # payments[ref].status
                   => payments'[ref].status \in ServiceStatuses
             /\ (\E st \in WebhookStatuses : Webhook(ref, st))
                   => payments'[ref].status \in ServiceStatuses
             /\ ((\E ok \in BOOLEAN : Retry(ref, ok))
                    /\ response'.outcome \in {"retried", "retry_failed"})
                   => payments'[ref].status \in ServiceStatuses
             /\ (RefundCreate(ref, Price) /\ ~can_be_refunded(payments[ref]))
                   => /\ refund_requests' = refund_requests
                      /\ response'.code = 400
       /\ \A id \in DOMAIN refund_requests :
             (/\ ReviewApprove(1, id)
              /\ ~can_be_refunded(payments[refund_requests[id].payment]))
               => /\ refund_requests' = refund_requests
                  /\ response'.code = 400
      ]_vars

C28_Witness ==
    /\ response.op = "review"
    /\ response.outcome = "cannot_be_approved"
    /\ refund_requests[response.arg].status = "pending"
    /\ payments[refund_requests[response.arg].payment].status = "completed"

\* C29: the event is soft-deleted only when no paid purchase of it exists at
\* the time of the request; a delete request while it has a paid purchase is
\* rejected and leaves the event as it was.
C29_DeleteOnlyWhenNothingSold ==
    [][/\ (events[1].is_active /\ ~events'[1].is_active)
             => \A tk \in Tickets : PaidQuantity(tk) = 0
       /\ (EventDestroy /\ \E tk \in Tickets : PaidQuantity(tk) > 0)
             => /\ response'.code \in 400..499
                /\ events[1].is_active => response'.outcome = "has_sold_tickets"
                /\ events' = events
      ]_vars

C29_Witness ==
    /\ response.op = "event_destroy"
    /\ response.code = 204
    /\ ~events[1].is_active
    /\ \E id \in DOMAIN purchases :
          purchases[id].status = "cancelled" /\ purchases[id].paid_at # NoTime

\* C30: a retry is attempted only for a payment that is failed or cancelled
\* and whose purchase, if it has one, is not cancelled; any other retry request
\* is rejected and changes neither the payment, nor the purchase, nor
\* quantity_sold.
C30_RetryRules ==
    [][\A ref \in DOMAIN payments, ok \in BOOLEAN :
          Retry(ref, ok) =>
            LET pay == payments[ref]
                retryable ==
                    /\ pay.status \in {"failed", "cancelled"}
                    /\ pay.purchase # None => purchases[pay.purchase].status # "cancelled"
            IN  /\ response'.outcome \in {"retried", "retry_failed"} <=> retryable
                /\ ~retryable => /\ response'.code = 400
                                 /\ response'.outcome \in {"not_retryable",
                                                            "purchase_cancelled"}
                                 /\ payments' = payments
                                 /\ purchases' = purchases
                                 /\ tickets' = tickets
      ]_vars

C30_Witness ==
    /\ response.op = "retry"
    /\ response.outcome = "purchase_cancelled"
    /\ payments[response.arg].status = "failed"
    /\ purchases[payments[response.arg].purchase].paid_at # NoTime

====
